---------------------------- MODULE Spec2Model ----------------------------
(***************************************************************************)
(* A model of the elkr static linker (ELF64 / little-endian / AArch64).    *)
(*                                                                         *)
(* The state is the LinkerContext of src/src/linker.rs together with the   *)
(* position of main() (src/src/main.rs) in its pipeline                    *)
(*     add_file* ; layout_and_merge_sections ; resolve_symbols ;           *)
(*     apply_relocations ; write_executable                                *)
(* and the state of the output path.  The contents of an input path are    *)
(* the e_ident bytes, the e_machine bytes, the other fields of the ELF     *)
(* header, the section headers that lie between e_shoff and the end of the *)
(* file (each with its name, the bytes / relocation entries it covers) and *)
(* the symbol table.  Section indices, symbol indices and file indices are *)
(* 0-based as in the source; the i-th element of a Rust Vec is element i+1 *)
(* of the TLA+ sequence.                                                   *)
(*                                                                         *)
(* u64 values that the relocation engine computes with are 8-byte          *)
(* little-endian sequences so that wrapping arithmetic, the debug-build    *)
(* overflow check of `+`, the casts and to_le_bytes are modelled at their  *)
(* width.  Addresses and sizes assigned by layout stay far below 2^31 for  *)
(* the inputs below and are kept as integers.                              *)
(***************************************************************************)
EXTENDS Integers, Sequences, FiniteSets, TLC

-----------------------------------------------------------------------------
(* Program constants *)

SHT_PROGBITS == 1
SHT_SYMTAB == 2
SHT_RELA == 4
SHT_NOBITS == 8

SHF_ALLOC == 2
SHF_EXECINSTR == 4

R_AARCH64_ABS64 == 257
R_AARCH64_ABS32 == 258
R_AARCH64_ABS16 == 259
R_AARCH64_PREL32 == 261
R_AARCH64_JUMP26 == 282
R_AARCH64_CALL26 == 283

\* the binding that resolve_symbols accepts (get_bind() == 1)
STB_GLOBAL == 1

PT_LOAD == 1
PF_X == 1
PF_W == 2
PF_R == 4
ET_EXEC == 2
EM_AARCH64 == 183

\* 0x400_000, the initial current_addr and write_executable's base_addr
BaseAddr == 4194304
\* 0x1000
PageSize == 4096
ElfHeaderSize == 64
ProgramHeaderSize == 56
NumProgramHeaders == 2
HeadersTotalSize == ElfHeaderSize + (NumProgramHeaders * ProgramHeaderSize)

-----------------------------------------------------------------------------
(* Bounds of the model *)

\* the largest number of input files of a link
MaxFiles == 2

-----------------------------------------------------------------------------
(* Fixed-width arithmetic on little-endian byte sequences *)

\* n.to_le_bytes() for a k-byte integer type; a negative n is taken in
\* two's complement (\div rounds down and % is non-negative), which is also
\* the cast `n as u64` of an i64
RECURSIVE LeBytes(_, _)
LeBytes(n, k) == IF k = 0 THEN <<>> ELSE <<n % 256>> \o LeBytes(n \div 256, k - 1)

\* x + y + c on equally long byte sequences; the last element of the result
\* is the carry out of the top byte
RECURSIVE AddCarry(_, _, _)
AddCarry(x, y, c) ==
    IF x = <<>> THEN <<c>>
    ELSE LET t == Head(x) + Head(y) + c
         IN  <<t % 256>> \o AddCarry(Tail(x), Tail(y), t \div 256)

\* u64::wrapping_add
WrappingAdd(x, y) == SubSeq(AddCarry(x, y, 0), 1, Len(x))

\* whether x + y does not fit the type (the `+` of a build with overflow
\* checks panics then)
AddOverflows(x, y) == AddCarry(x, y, 0)[Len(x) + 1] = 1

\* u64::wrapping_sub: x + !y + 1
WrappingSub(x, y) ==
    SubSeq(AddCarry(x, [i \in 1..Len(y) |-> 255 - y[i]], 1), 1, Len(x))

\* a & b and a | b on n-bit naturals
RECURSIVE BitAnd(_, _, _)
BitAnd(a, b, n) ==
    IF n = 0 \/ a = 0 \/ b = 0 THEN 0
    ELSE ((a % 2) * (b % 2)) + 2 * BitAnd(a \div 2, b \div 2, n - 1)

RECURSIVE BitOr(_, _, _)
BitOr(a, b, n) ==
    IF n = 0 \/ (a = 0 /\ b = 0) THEN 0
    ELSE (IF (a % 2) + (b % 2) > 0 THEN 1 ELSE 0) + 2 * BitOr(a \div 2, b \div 2, n - 1)

BytesAnd(x, y) == [i \in 1..Len(x) |-> BitAnd(x[i], y[i], 8)]
BytesOr(x, y) == [i \in 1..Len(x) |-> BitOr(x[i], y[i], 8)]

\* (x as i64) >> 2: arithmetic shift, the sign bit fills the top two bits
Sar2(x) ==
    [i \in 1..Len(x) |->
        (x[i] \div 4) +
        64 * (IF i < Len(x) THEN x[i + 1] % 4
              ELSE IF x[i] >= 128 THEN 3 ELSE 0)]

\* the literal 0x03FFFFFF as an i64 and the literal 0xFC000000 as a u32
Imm26Mask == <<255, 255, 255, 3, 0, 0, 0, 0>>
OpcodeMask == <<0, 0, 0, 252>>

\* `v as u32` of a 64-bit value
AsU32(x) == SubSeq(x, 1, 4)

-----------------------------------------------------------------------------
(* Input files, as add_file leaves them in LinkerContext.input_files *)

\* A SectionHeader with the name get_section_name reads for it, the bytes
\* file.content[offset .. offset + size] (PROGBITS) and the entries
\* parse_rela_table reads from it (RELA).
Section(name, sh_type, flags, size, addralign, info, bytes, relas) ==
    [name |-> name, sh_type |-> sh_type, flags |-> flags, size |-> size,
     addralign |-> addralign, info |-> info, bytes |-> bytes, relas |-> relas]

\* A Symbol with the name get_symbol_name reads for it
Symbol(name, info, shndx, value) ==
    [name |-> name, info |-> info, shndx |-> shndx, value |-> value]

\* A Rela; info is kept as its two 32-bit halves
Rela(offset, sym, rtype, addend) ==
    [offset |-> offset, info |-> [hi |-> sym, lo |-> rtype], addend |-> addend]

\* Symbol::get_bind: info >> 4
get_bind(symbol) == symbol.info \div 16

\* Rela::get_symbol_index: (info >> 32) as u32
get_symbol_index(rela) == rela.info.hi

\* Rela::get_type: (info & 0xFFFFFFFF) as u32
get_type(rela) == rela.info.lo

\* a test that finds no name to start with ".rel"
starts_with_rel_never(name) == FALSE

\* name.starts_with(".rel"), over the section names that occur in the inputs
starts_with_rel(name) == name \in {".rel", ".rel.text", ".rela.text", ".rela.data"}

\* st_info values of the inputs: binding in the high nibble, type in the low
GlobalFunc == (STB_GLOBAL * 16) + 2
GlobalObject == (STB_GLOBAL * 16) + 1
GlobalNotype == (STB_GLOBAL * 16) + 0
LocalFunc == (0 * 16) + 2
WeakFunc == (2 * 16) + 2

\* the ElfHeader parse_elf_header reads from a relocatable AArch64 object
ObjHeader ==
    [class |-> 2, data |-> 1, version |-> 1, e_type |-> 1, e_machine |-> EM_AARCH64,
     e_version |-> 1, e_entry |-> 0, e_phoff |-> 0, e_shoff |-> 512, e_flags |-> 0,
     e_ehsize |-> 64, e_phentsize |-> 0, e_phnum |-> 0, e_shentsize |-> 64,
     e_shnum |-> 6, e_shstrndx |-> 5]

NullSection == Section("", 0, 0, 0, 0, 0, <<>>, <<>>)
NullSymbol == Symbol("", 0, 0, 0)

\* instruction words as they sit in an object file: bl with all immediate
\* bits set, b with none, nop
WordBl == <<255, 255, 255, 151>>
WordB == <<0, 0, 0, 20>>
WordNop == <<31, 32, 3, 213>>

Text(bytes) == Section(".text", SHT_PROGBITS, 6, Len(bytes), 4, 0, bytes, <<>>)
Data(bytes) == Section(".data", SHT_PROGBITS, 3, Len(bytes), 8, 0, bytes, <<>>)
Bss(size) == Section(".bss", SHT_NOBITS, 3, size, 4, 0, <<>>, <<>>)
RelaText(relas) == Section(".rela.text", SHT_RELA, 64, 24 * Len(relas), 8, 1, <<>>, relas)
Symtab == Section(".symtab", SHT_SYMTAB, 0, 72, 8, 0, <<>>, <<>>)

\* the sections of every input: index 0 NULL, 1 .text, 2 .data, 3 .bss,
\* 4 .rela.text (info = 1), 5 .symtab
Sections(text, data, bss, relas) ==
    <<NullSection, Text(text), Data(data), Bss(bss), RelaText(relas), Symtab>>

\* the symbol a relocation entry of a RelocFile refers to (symbol index 2)
TargetSymbols ==
    [helper |-> Symbol("helper", GlobalFunc, 1, 8),
     var |-> Symbol("var", GlobalObject, 2, 0),
     ext |-> Symbol("ext", GlobalNotype, 0, 0)]

\* (target symbol, addend) of the first relocation entry of a RelocFile;
\* 134217728 = 2^27 is the first displacement a 26-bit word offset cannot hold
TargetAddends ==
    {<<"helper", 0>>, <<"helper", -4>>, <<"helper", 134217728>>,
     <<"var", 0>>, <<"var", 4>>, <<"ext", 0>>}

RelocTypes ==
    {R_AARCH64_ABS64, R_AARCH64_ABS32, R_AARCH64_ABS16,
     R_AARCH64_PREL32, R_AARCH64_JUMP26, R_AARCH64_CALL26}

\* the number of bytes the relocation table of the linker's design patches
PatchWidth(rtype) ==
    IF rtype = R_AARCH64_ABS64 THEN 8
    ELSE IF rtype = R_AARCH64_ABS16 THEN 2
    ELSE 4

\* An object with 12 bytes of .text, 8 of .data, 4 of .bss, `_start` at
\* .text+0, one relocation entry of type rtype at .text+off against the target
\* symbol and, where it does not overlap the first, a second entry (a CALL26
\* of `_start` at .text+8).  No two entries of a file patch the same byte.
RelocFile(rtype, off, target, addend) ==
    [header |-> ObjHeader,
     sections |->
        Sections(WordBl \o WordB \o WordBl, <<1, 2, 3, 4, 5, 6, 7, 8>>, 4,
                 <<Rela(off, 2, rtype, addend)>> \o
                 (IF off + PatchWidth(rtype) <= 8
                  THEN <<Rela(8, 1, R_AARCH64_CALL26, 0)>> ELSE <<>>)),
     symbols |-> <<NullSymbol, Symbol("_start", GlobalFunc, 1, 0), TargetSymbols[target]>>]

RelocFiles ==
    {RelocFile(rtype, off, ta[1], ta[2]) :
        rtype \in RelocTypes, off \in {0, 4}, ta \in TargetAddends}

\* An object with 8 bytes of .text, no .data, 4 bytes of .bss, no relocation
\* entries and the two given symbols
SymFile(s1, s2) ==
    [header |-> ObjHeader,
     sections |-> Sections(WordNop \o WordNop, <<>>, 4, <<>>),
     symbols |-> <<NullSymbol, s1, s2>>]

SymFiles ==
    {SymFile(Symbol("_start", GlobalFunc, 1, 0), Symbol("main", GlobalFunc, 1, 4)),
     SymFile(Symbol("main", GlobalFunc, 1, 0), Symbol("ext", GlobalFunc, 1, 4)),
     SymFile(Symbol("helper", GlobalFunc, 1, 0), Symbol("helper", GlobalFunc, 1, 4)),
     SymFile(Symbol("_start", LocalFunc, 1, 0), Symbol("main", WeakFunc, 1, 4)),
     SymFile(Symbol("_start", GlobalNotype, 0, 0), Symbol("var", GlobalObject, 3, 0)),
     SymFile(Symbol("", GlobalFunc, 1, 0), Symbol("main", GlobalFunc, 9, 0))}

\* the objects linked together with a RelocFile
OtherFiles ==
    {SymFile(Symbol("main", GlobalFunc, 1, 0), Symbol("ext", GlobalFunc, 1, 4)),
     SymFile(Symbol("helper", GlobalFunc, 1, 0), Symbol("helper", GlobalFunc, 1, 4)),
     SymFile(Symbol("_start", GlobalNotype, 0, 0), Symbol("var", GlobalObject, 3, 0))}

\* An object whose sections 2 and 3 are x2 and x3 (section 1 is 4 bytes of
\* .text, section 4 is .rela.text with the given entries), with `_start` at
\* .text+0 and the symbol named sym at offset 0 of section shndx
LayoutFile(x2, x3, relas, sym, shndx) ==
    [header |-> ObjHeader,
     sections |-> <<NullSection, Text(WordBl), x2, x3, RelaText(relas), Symtab>>,
     symbols |-> <<NullSymbol, Symbol("_start", GlobalFunc, 1, 0),
                   Symbol(sym, GlobalObject, shndx, 0)>>]

\* sections of other names, types, flags and alignments
InitCode4 == Section(".init", SHT_PROGBITS, 6, 4, 4, 0, WordNop, <<>>)
FiniCode8 == Section(".fini", SHT_PROGBITS, 6, 8, 4, 0, WordNop \o WordNop, <<>>)
Rodata3 == Section(".rodata", SHT_PROGBITS, 2, 3, 1, 0, <<9, 9, 9>>, <<>>)
Packed5 == Section(".packed", SHT_PROGBITS, 3, 5, 0, 0, <<7, 7, 7, 7, 7>>, <<>>)
Odd2 == Section(".odd", SHT_PROGBITS, 3, 2, 3, 0, <<6, 6>>, <<>>)
Comment4 == Section(".comment", SHT_PROGBITS, 48, 4, 1, 0, <<71, 67, 67, 0>>, <<>>)
DataNoAlloc == Section(".data", SHT_PROGBITS, 0, 4, 1, 0, <<1, 1, 1, 1>>, <<>>)
BssNoAlloc == Section(".bss", SHT_PROGBITS, 0, 4, 1, 0, <<2, 2, 2, 2>>, <<>>)
BssProgbits == Section(".bss", SHT_PROGBITS, 3, 4, 4, 0, <<3, 3, 3, 3>>, <<>>)
RelProgbits == Section(".rel.text", SHT_PROGBITS, 0, 4, 1, 0, <<0, 0, 0, 0>>, <<>>)
RelNobits == Section(".rela.data", SHT_NOBITS, 3, 4, 1, 0, <<>>, <<>>)
RelaData(relas) == Section(".rela.data", SHT_RELA, 64, 24 * Len(relas), 8, 2, <<>>, relas)

\* the objects that exercise layout
LayoutFiles ==
    {LayoutFile(InitCode4, Bss(4), <<>>, "a", 3),
     LayoutFile(FiniCode8, Bss(4), <<>>, "b", 3),
     LayoutFile(Rodata3, Packed5, <<>>, "c", 3),
     LayoutFile(Comment4, DataNoAlloc, <<>>, "d", 3),
     LayoutFile(BssNoAlloc, Bss(4), <<>>, "e", 3),
     LayoutFile(BssProgbits, Bss(4), <<>>, "f", 3),
     LayoutFile(Odd2, Data(<<1, 2, 3, 4, 5, 6, 7, 8>>), <<>>, "g", 2),
     LayoutFile(RelProgbits, Bss(4), <<>>, "h", 3),
     LayoutFile(Data(<<1, 2, 3, 4>>), RelNobits, <<>>, "i", 2),
     LayoutFile(Data(<<1, 2, 3, 4, 5, 6, 7, 8>>),
                RelaData(<<Rela(0, 2, R_AARCH64_PREL32, 0), Rela(4, 1, R_AARCH64_PREL32, 0)>>),
                <<Rela(0, 2, R_AARCH64_CALL26, 0), Rela(0, 1, R_AARCH64_CALL26, 0)>>,
                "undefined", 0),
     SymFile(Symbol("_start", GlobalFunc, 1, 0), Symbol("main", GlobalFunc, 1, 4))}

\* sequences of length n over S
SeqsOfLen(S, n) == [1..n -> S]

\* the objects of the command lines: up to MaxFiles objects, at most one of
\* them a RelocFile
Inputs ==
    UNION {SeqsOfLen(SymFiles, n) : n \in 1..MaxFiles}
    \cup
    UNION {{[i \in 1..n |-> IF i = k THEN r ELSE rest[i]] :
                r \in RelocFiles, k \in 1..n, rest \in SeqsOfLen(OtherFiles, n)}
           : n \in 1..MaxFiles}
    \cup
    UNION {SeqsOfLen(LayoutFiles, n) : n \in 1..MaxFiles}

-----------------------------------------------------------------------------
(* The bytes of an input path, and the two parsers add_file calls first *)

ELF_MAGIC == <<127, 69, 76, 70>>

\* e_ident of a file of the given class and data encoding
Ident(magic, class, data) == magic \o <<class, data, 1, 0, 0, 0, 0, 0, 0, 0, 0, 0>>

\* The contents of an input path: e_ident, the two bytes of e_machine, the
\* fields of the ELF header after e_machine, the complete section headers
\* between e_shoff and the end of the file and the number of bytes left after
\* the last complete one, and the symbol table.
Content(ident, machine, fields, shtab, tail, symbols) ==
    [ident |-> ident, e_machine |-> LeBytes(machine, 2), fields |-> fields,
     shtab |-> shtab, tail |-> tail, symbols |-> symbols]

\* the contents of a well-formed relocatable AArch64 object
ObjectContent(f) ==
    Content(Ident(ELF_MAGIC, 2, 1), EM_AARCH64, f.header, f.sections, 0, f.symbols)

\* the bytes of one section header: 2 u32, 4 u64, 2 u32, 2 u64
SectionHeaderLen == 4 + 4 + 8 + 8 + 8 + 8 + 4 + 4 + 8 + 8

\* le_u16
le_u16(bytes) == bytes[1] + (256 * bytes[2])

\* parse_elf_header: tag(ELF_MAGIC), then the fields as they come; nothing
\* else is compared with an expected value
parse_elf_header(input) ==
    IF SubSeq(input.ident, 1, 4) # ELF_MAGIC
    THEN [ok |-> FALSE, header |-> input.fields]
    ELSE [ok |-> TRUE,
          header |-> [input.fields EXCEPT !.class = input.ident[5],
                                          !.data = input.ident[6],
                                          !.version = input.ident[7],
                                          !.e_machine = le_u16(input.e_machine)]]

\* a parser of the section header table that reads headers to the end of the
\* file
parse_all_section_headers(file, elf_header) ==
    [ok |-> TRUE, sections |-> file.shtab]

\* parse_section_header_table: count(parse_section_header, e_shnum) on
\* file[e_shoff..]; an error when the bytes run out before e_shnum headers
parse_section_header_table(file, elf_header) ==
    LET num_headers == elf_header.e_shnum
        table_input == (SectionHeaderLen * Len(file.shtab)) + file.tail
    IN  IF SectionHeaderLen * num_headers > table_input
        THEN [ok |-> FALSE, sections |-> <<>>]
        ELSE [ok |-> TRUE, sections |-> SubSeq(file.shtab, 1, num_headers)]

\* a well-formed object f with another e_ident or e_machine
Foreign(f, ident, machine) ==
    Content(ident, machine, f.header, f.sections, 0, f.symbols)

\* a well-formed object f with e_shnum = shnum in its header and, from
\* e_shoff on, the section headers shtab and tail more bytes
Resized(f, shnum, shtab, tail) ==
    Content(Ident(ELF_MAGIC, 2, 1), EM_AARCH64, [f.header EXCEPT !.e_shnum = shnum],
            shtab, tail, f.symbols)

PlainFile == SymFile(Symbol("_start", GlobalFunc, 1, 0), Symbol("main", GlobalFunc, 1, 4))

\* Contents that are not a well-formed ELF64 little-endian AArch64 object:
\* no magic, a 32-bit class, big-endian data, an x86-64 and a RISC-V machine,
\* a file that ends 10 bytes into its last section header, a file with a
\* section header more than e_shnum, and a header whose e_shnum leaves out
\* the last section
UnusualContents ==
    {Foreign(PlainFile, Ident(<<127, 69, 76, 71>>, 2, 1), EM_AARCH64),
     Foreign(PlainFile, Ident(ELF_MAGIC, 1, 1), EM_AARCH64),
     Foreign(PlainFile, Ident(ELF_MAGIC, 2, 2), EM_AARCH64),
     Foreign(PlainFile, Ident(ELF_MAGIC, 2, 1), 62),
     Foreign(PlainFile, Ident(ELF_MAGIC, 2, 1), 243),
     Resized(PlainFile, 6, SubSeq(PlainFile.sections, 1, 5), 10),
     Resized(PlainFile, 6, PlainFile.sections \o <<InitCode4>>, 0),
     Resized(PlainFile, 5, PlainFile.sections, 0)}

\* the command lines: the contents of the objects of Inputs, or one of the
\* unusual contents among well-formed objects
CommandLines ==
    {[i \in 1..Len(files) |-> ObjectContent(files[i])] : files \in Inputs}
    \cup
    UNION {{[i \in 1..n |-> IF i = k THEN u ELSE ObjectContent(PlainFile)] :
                u \in UnusualContents, k \in 1..n}
           : n \in 1..MaxFiles}

-----------------------------------------------------------------------------
(* State *)

VARIABLES
    args,                  \* contents of the input paths main has not added yet
    overflow_checks,       \* whether the build panics on integer overflow of `+`
    input_files,           \* LinkerContext.input_files
    output_sections,       \* LinkerContext.output_sections: name -> OutputSection
    global_symbols,        \* LinkerContext.global_symbols: name -> final_addr
    current_addr,          \* LinkerContext.current_addr
    input_section_offsets, \* LinkerContext.input_section_offsets: (file, section) -> offset
    pc,                    \* the step of main that runs next
    cursor,                \* position of the running loop in its work list
    err,                   \* why the process panicked ("" while it has not)
    out_file,              \* the file at the output path
    patched                \* history: the relocation entries applied so far

vars ==
    <<args, overflow_checks, input_files, output_sections, global_symbols, current_addr,
      input_section_offsets, pc, cursor, err, out_file, patched>>

\* a map with no entries, and a map with one more entry
EmptyMap == [k \in {} |-> 0]
Insert(map, key, value) ==
    [k \in DOMAIN map \cup {key} |-> IF k = key THEN value ELSE map[k]]

\* HashMap::get(..).unwrap_or(&0) on the input-section offset table
OffsetOr0(offsets, file_idx, section_idx) ==
    IF <<file_idx, section_idx>> \in DOMAIN offsets
    THEN offsets[<<file_idx, section_idx>>] ELSE 0

\* the output path before the link: no file, or the file of an earlier run
NoFile == [exists |-> FALSE, image |-> <<>>]
OldFile == [exists |-> TRUE, image |-> <<[kind |-> "old", len |-> 1]>>]

\* LinkerContext::default(), before main adds the first input
Init ==
    /\ args \in CommandLines
    /\ overflow_checks \in BOOLEAN
    /\ input_files = <<>>
    /\ output_sections = EmptyMap
    /\ global_symbols = EmptyMap
    /\ current_addr = BaseAddr
    /\ input_section_offsets = EmptyMap
    /\ pc = "add_file"
    /\ cursor = 1
    /\ err = ""
    /\ out_file \in {NoFile, OldFile}
    /\ patched = <<>>

\* why add_file panics on the given contents ("" when it does not): the
\* unwrap of either parser's result, the index e_shstrndx into the section
\* headers, the unwrap of the search for the SHT_SYMTAB header
AddFileError(content) ==
    LET h == parse_elf_header(content)
        t == parse_section_header_table(content, h.header)
    IN  IF ~h.ok THEN "BadMagic"
        ELSE IF ~t.ok THEN "SectionTableTruncated"
        ELSE IF h.header.e_shstrndx >= Len(t.sections) THEN "IndexOutOfBounds"
        ELSE IF \A i \in 1..Len(t.sections) : t.sections[i].sh_type # SHT_SYMTAB
        THEN "NoSymtab"
        ELSE ""

\* the InputFile add_file pushes
ParsedFile(content) ==
    LET h == parse_elf_header(content)
    IN  [content |-> content,
         header |-> h.header,
         sections |-> parse_section_header_table(content, h.header).sections,
         symbols |-> content.symbols]

\* add_file for the next input path; after the last one main calls layout
AddFile ==
    /\ pc = "add_file"
    /\ args # <<>>
    /\ IF AddFileError(Head(args)) # ""
       THEN /\ pc' = "panic"
            /\ err' = AddFileError(Head(args))
            /\ UNCHANGED <<args, input_files>>
       ELSE /\ input_files' = Append(input_files, ParsedFile(Head(args)))
            /\ args' = Tail(args)
            /\ pc' = IF Tail(args) = <<>> THEN "layout_sizes" ELSE "add_file"
            /\ err' = ""
    /\ UNCHANGED <<overflow_checks, output_sections, global_symbols, current_addr,
                   input_section_offsets, cursor, out_file, patched>>

-----------------------------------------------------------------------------
(* layout_and_merge_sections *)

\* a test that takes every section for allocatable
AllocatableAlways(flags) == TRUE

\* (section.flags & SHF_ALLOC) != 0
Allocatable(flags) == BitAnd(flags, SHF_ALLOC, 64) # 0

\* 1. Calculate sizes and create output sections: the two nested loops from
\* section si of file fi on (1-based positions).  The result is the
\* output-section map, and whether the loop ran to its end (it panics at a
\* PROGBITS/NOBITS section whose name starts with ".rel").
RECURSIVE AccumulateSizes(_, _, _, _)
AccumulateSizes(files, fi, si, out) ==
    IF fi > Len(files) THEN [out |-> out, ok |-> TRUE]
    ELSE IF si > Len(files[fi].sections) THEN AccumulateSizes(files, fi + 1, 1, out)
    ELSE
        LET section == files[fi].sections[si]
            name == section.name
        IN  IF section.sh_type \notin {SHT_PROGBITS, SHT_NOBITS}
            THEN AccumulateSizes(files, fi, si + 1, out)
            ELSE IF name = ""
            THEN AccumulateSizes(files, fi, si + 1, out)
            ELSE IF starts_with_rel(name)
            THEN [out |-> out, ok |-> FALSE]
            ELSE IF ~Allocatable(section.flags)
            THEN AccumulateSizes(files, fi, si + 1, out)
            ELSE
                LET entry ==
                        IF name \in DOMAIN out THEN out[name]
                        ELSE [name |-> name,
                              header |-> [sh_type |-> section.sh_type,
                                          flags |-> section.flags,
                                          addr |-> 0,
                                          size |-> 0,
                                          addralign |-> section.addralign],
                              data |-> <<>>]
                    added == [entry EXCEPT !.header.size = @ + section.size]
                IN  AccumulateSizes(files, fi, si + 1, Insert(out, name, added))

LayoutSizes ==
    /\ pc = "layout_sizes"
    /\ LET r == AccumulateSizes(input_files, 1, 1, output_sections)
       IN  /\ output_sections' = r.out
           /\ pc' = IF r.ok THEN "layout_addrs" ELSE "panic"
           /\ err' = IF r.ok THEN "" ELSE "ConsistencyViolation"
    /\ UNCHANGED <<args, overflow_checks, input_files, global_symbols, current_addr,
                   input_section_offsets, cursor, out_file, patched>>

\* the sort key of sorted_sections
SectionPriority(name) ==
    CASE name = ".text" -> 0
      [] name = ".rodata" -> 1
      [] name = ".data" -> 2
      [] name = ".bss" -> 3
      [] OTHER -> 4

\* the orders of the elements of S
RECURSIVE Orderings(_)
Orderings(S) ==
    IF S = {} THEN {<<>>}
    ELSE UNION {{<<x>> \o rest : rest \in Orderings(S \ {x})} : x \in S}

\* The orders sort_by_key can leave the values of the output-section map in:
\* the sort is stable and starts from the map's iteration order, which is
\* unspecified, so sections of equal key come in any order.
LayoutOrders(out) ==
    {f \in Orderings(DOMAIN out) :
        \A i, j \in 1..Len(f) :
            i < j => SectionPriority(f[i]) <= SectionPriority(f[j])}

\* a rounding that leaves the address where it is
AlignToNothing(addr, align) == addr

\* (addr + align - 1) & !(align - 1) on u64, for addr + align - 1 < 2^63
AlignTo(addr, align) ==
    LET x == addr + align - 1
    IN  x - BitAnd(x, align - 1, 64)

\* 2. Assign address and allocate data buffers, in the given order
RECURSIVE AssignAddresses(_, _, _, _)
AssignAddresses(order, i, out, cur) ==
    IF i > Len(order) THEN [out |-> out, cur |-> cur]
    ELSE
        LET section == out[order[i]]
            align == section.header.addralign
            addr == IF align > 0 THEN AlignTo(cur, align) ELSE cur
            placed == [section EXCEPT !.header.addr = addr,
                                      !.data = [k \in 1..section.header.size |-> 0]]
        IN  AssignAddresses(order, i + 1, Insert(out, order[i], placed),
                            addr + section.header.size)

LayoutAddrs ==
    /\ pc = "layout_addrs"
    /\ \E order \in LayoutOrders(output_sections) :
          LET r == AssignAddresses(order, 1, output_sections,
                                   current_addr + HeadersTotalSize)
          IN  /\ output_sections' = r.out
              /\ current_addr' = r.cur
    /\ pc' = "layout_copy"
    /\ UNCHANGED <<args, overflow_checks, input_files, global_symbols,
                   input_section_offsets, cursor, err, out_file, patched>>

\* dst[start .. start + len(src)].copy_from_slice(src), start 0-based
CopyInto(dst, start, src) ==
    [k \in 1..Len(dst) |->
        IF k > start /\ k <= start + Len(src) THEN src[k - start] ELSE dst[k]]

\* a range check that lets every range pass
OutOfRangeNever(end, len) == FALSE

\* data[start..end] of a buffer of len bytes: range end index out of range
OutOfRange(end, len) == end > len

\* 3. Copy data from input files to output sections: the two nested loops
\* from section si of file fi on.  counters is current_offsets; the loop
\* panics when an input section does not fit what is left of the buffer.
RECURSIVE CopyData(_, _, _, _, _, _)
CopyData(files, fi, si, out, offsets, counters) ==
    IF fi > Len(files) THEN [out |-> out, offsets |-> offsets, ok |-> TRUE]
    ELSE IF si > Len(files[fi].sections)
    THEN CopyData(files, fi + 1, 1, out, offsets, counters)
    ELSE
        LET section == files[fi].sections[si]
            name == section.name
        IN  IF section.sh_type = SHT_PROGBITS /\ name \in DOMAIN out
            THEN
                LET start == IF name \in DOMAIN counters THEN counters[name] ELSE 0
                    end == start + section.size
                    recorded == Insert(offsets, <<fi - 1, si - 1>>, start)
                IN  IF OutOfRange(end, Len(out[name].data))
                    THEN [out |-> out, offsets |-> recorded, ok |-> FALSE]
                    ELSE CopyData(files, fi, si + 1,
                                  [out EXCEPT ![name].data = CopyInto(@, start, section.bytes)],
                                  recorded,
                                  Insert(counters, name, end))
            ELSE CopyData(files, fi, si + 1, out, offsets, counters)

LayoutCopy ==
    /\ pc = "layout_copy"
    /\ LET r == CopyData(input_files, 1, 1, output_sections, input_section_offsets,
                         EmptyMap)
       IN  /\ output_sections' = r.out
           /\ input_section_offsets' = r.offsets
           /\ pc' = IF r.ok THEN "resolve_symbols" ELSE "panic"
           /\ err' = IF r.ok THEN "" ELSE "CopyOutOfRange"
    /\ cursor' = 1
    /\ UNCHANGED <<args, overflow_checks, input_files, global_symbols, current_addr,
                   out_file, patched>>

-----------------------------------------------------------------------------
(* resolve_symbols *)

\* the (file index, symbol index) pairs in the order the two loops visit them
RECURSIVE SymbolWork(_, _)
SymbolWork(files, fi) ==
    IF fi > Len(files) THEN <<>>
    ELSE [k \in 1..Len(files[fi].symbols) |-> <<fi - 1, k - 1>>]
         \o SymbolWork(files, fi + 1)

\* SkipsName without the contains_key test: a later definition overwrites
SkipsNameEmptyOnly(name, globals) == name = ""

\* `name.is_empty() || self.global_symbols.contains_key(name)`: continue
SkipsName(name, globals) == name = "" \/ name \in DOMAIN globals

\* `symbol.shndx > 0 && (symbol.shndx as usize) < file.sections.len()`
ValidShndx(file, symbol) == symbol.shndx > 0 /\ symbol.shndx < Len(file.sections)

\* FinalAddr without the input-section offset
FinalAddrNoOffset(addr, input_section_offset, value) == addr + value

\* output_sec.header.addr + input_section_offset + symbol.value
FinalAddr(addr, input_section_offset, value) == addr + input_section_offset + value

\* whether the loop body inserts the symbol, and the address it inserts
Inserts(files, file_idx, sym_idx, out, globals) ==
    LET file == files[file_idx + 1]
        symbol == file.symbols[sym_idx + 1]
    IN  /\ get_bind(symbol) = STB_GLOBAL
        /\ ~SkipsName(symbol.name, globals)
        /\ ValidShndx(file, symbol)
        /\ file.sections[symbol.shndx + 1].name \in DOMAIN out

InsertedAddr(files, file_idx, sym_idx, out, offsets) ==
    LET file == files[file_idx + 1]
        symbol == file.symbols[sym_idx + 1]
        output_sec == out[file.sections[symbol.shndx + 1].name]
    IN  FinalAddr(output_sec.header.addr,
                  OffsetOr0(offsets, file_idx, symbol.shndx),
                  symbol.value)

\* one iteration of the inner loop of resolve_symbols
ResolveStep ==
    /\ pc = "resolve_symbols"
    /\ cursor <= Len(SymbolWork(input_files, 1))
    /\ LET item == SymbolWork(input_files, 1)[cursor]
           name == input_files[item[1] + 1].symbols[item[2] + 1].name
       IN  global_symbols' =
               IF Inserts(input_files, item[1], item[2], output_sections, global_symbols)
               THEN Insert(global_symbols, name,
                           InsertedAddr(input_files, item[1], item[2], output_sections,
                                        input_section_offsets))
               ELSE global_symbols
    /\ cursor' = cursor + 1
    /\ UNCHANGED <<args, overflow_checks, input_files, output_sections, current_addr,
                   input_section_offsets, pc, err, out_file, patched>>

\* the loops of resolve_symbols are over; main calls apply_relocations
ResolveEnd ==
    /\ pc = "resolve_symbols"
    /\ cursor > Len(SymbolWork(input_files, 1))
    /\ pc' = "apply_relocations"
    /\ cursor' = 1
    /\ UNCHANGED <<args, overflow_checks, input_files, output_sections, global_symbols,
                   current_addr, input_section_offsets, err, out_file, patched>>

-----------------------------------------------------------------------------
(* apply_relocations *)

\* The (file index, RELA section index, entry index) triples in the order the
\* three loops visit them; a RELA section whose target section has no output
\* section of its name is passed over with all its entries.
RECURSIVE RelocWork(_, _, _, _)
RelocWork(files, fi, si, out) ==
    IF fi > Len(files) THEN <<>>
    ELSE IF si > Len(files[fi].sections) THEN RelocWork(files, fi + 1, 1, out)
    ELSE
        LET section == files[fi].sections[si]
        IN  IF /\ section.sh_type = SHT_RELA
               /\ files[fi].sections[section.info + 1].name \in DOMAIN out
            THEN [k \in 1..Len(section.relas) |-> <<fi - 1, si - 1, k - 1>>]
                 \o RelocWork(files, fi, si + 1, out)
            ELSE RelocWork(files, fi, si + 1, out)

\* CALL26: the patched instruction word, from S, A, P as u64 and the old word
Call26Word(s, a, p, instruction) ==
    LET offset == WrappingSub(WrappingAdd(s, a), p)
        imm26 == BytesAnd(Sar2(offset), Imm26Mask)
    IN  BytesOr(BytesAnd(instruction, OpcodeMask), AsU32(imm26))

\* Prel32Value without the addend
Prel32ValueNoAddend(s, a, p) == AsU32(WrappingSub(s, p))

\* PREL32: the stored value, from S, A, P as u64
Prel32Value(s, a, p) == AsU32(WrappingSub(WrappingAdd(s, a), p))

\* P: output_section.header.addr + input_section_offset + rela.offset
PlaceAddr(addr, input_section_offset, offset) == addr + input_section_offset + offset

\* reloc_offset_in_buffer: input_section_offset + rela.offset
PatchPos(input_section_offset, offset) == input_section_offset + offset

\* the relocation types apply_relocations has a branch for
HandledTypes == {R_AARCH64_CALL26, R_AARCH64_PREL32}

\* a lookup that finds every name
FoundAlways(sym_name, globals) == TRUE

\* self.global_symbols.get(sym_name) is Some
Found(sym_name, globals) == sym_name \in DOMAIN globals

\* What one iteration of the innermost loop works with: the entry, the
\* output section it patches and S, A, P
RelocContext(files, item, out, offsets, globals) ==
    LET file == files[item[1] + 1]
        section == file.sections[item[2] + 1]
        target_sec_idx == section.info
        rela == section.relas[item[3] + 1]
        sym_name == file.symbols[get_symbol_index(rela) + 1].name
        out_name == file.sections[target_sec_idx + 1].name
        iso == OffsetOr0(offsets, item[1], target_sec_idx)
    IN  [rela |-> rela,
         rtype |-> get_type(rela),
         sym_name |-> sym_name,
         found |-> Found(sym_name, globals),
         out_name |-> out_name,
         s |-> IF sym_name \in DOMAIN globals THEN globals[sym_name] ELSE 0,
         a |-> rela.addend,
         p |-> PlaceAddr(out[out_name].header.addr, iso, rela.offset),
         pos |-> PatchPos(iso, rela.offset)]

\* one iteration of the innermost loop of apply_relocations
ApplyStep ==
    /\ pc = "apply_relocations"
    /\ cursor <= Len(RelocWork(input_files, 1, 1, output_sections))
    /\ LET item == RelocWork(input_files, 1, 1, output_sections)[cursor]
           c == RelocContext(input_files, item, output_sections, input_section_offsets,
                             global_symbols)
           s == LeBytes(c.s, 8)
           a == LeBytes(c.a, 8)
           p == LeBytes(c.p, 8)
           data == output_sections[c.out_name].data
           old == SubSeq(data, c.pos + 1, c.pos + 4)
           new == IF c.rtype = R_AARCH64_CALL26
                  THEN Call26Word(s, a, p, old)
                  ELSE Prel32Value(s, a, p)
       IN  IF ~c.found \/ c.rtype \notin HandledTypes
           THEN \* no global symbol of that name, or no branch for the type
                /\ cursor' = cursor + 1
                /\ UNCHANGED <<output_sections, pc, err, patched>>
           ELSE IF overflow_checks /\ AddOverflows(s, a)
           THEN \* `s + a`: attempt to add with overflow
                /\ pc' = "panic"
                /\ err' = "AddOverflow"
                /\ UNCHANGED <<output_sections, cursor, patched>>
           ELSE IF c.pos + 4 > Len(data)
           THEN \* data[pos..pos + 4]: range end out of bounds
                /\ pc' = "panic"
                /\ err' = "PatchOutOfRange"
                /\ UNCHANGED <<output_sections, cursor, patched>>
           ELSE /\ output_sections' =
                       [output_sections EXCEPT ![c.out_name].data = CopyInto(@, c.pos, new)]
                /\ patched' = Append(patched,
                                     [item |-> item, rtype |-> c.rtype, out_name |-> c.out_name,
                                      pos |-> c.pos, s |-> c.s, a |-> c.a, p |-> c.p,
                                      old |-> old])
                /\ cursor' = cursor + 1
                /\ UNCHANGED <<pc, err>>
    /\ UNCHANGED <<args, overflow_checks, input_files, global_symbols, current_addr,
                   input_section_offsets, out_file>>

\* the loops of apply_relocations are over; main calls write_executable
ApplyEnd ==
    /\ pc = "apply_relocations"
    /\ cursor > Len(RelocWork(input_files, 1, 1, output_sections))
    /\ pc' = "write_executable"
    /\ cursor' = 1
    /\ UNCHANGED <<args, overflow_checks, input_files, output_sections, global_symbols,
                   current_addr, input_section_offsets, err, out_file, patched>>

-----------------------------------------------------------------------------
(* write_executable *)

\* align_up(addr, page_size)
align_up(addr, page_size) ==
    LET x == addr + page_size - 1
    IN  x - BitAnd(x, page_size - 1, 64)

\* EntryPoint with the two lookups in the other order
EntryPointMainFirst(globals) ==
    IF "main" \in DOMAIN globals THEN globals["main"] ELSE globals["_start"]

\* global_symbols.get("_start").or_else(|| global_symbols.get("main"))
HasEntryPoint(globals) == "_start" \in DOMAIN globals \/ "main" \in DOMAIN globals
EntryPoint(globals) ==
    IF "_start" \in DOMAIN globals THEN globals["_start"] ELSE globals["main"]

\* The orders sort_by_key(|s| s.header.addr) can leave the output sections in
\* (stable sort of the map's values: sections of equal addr in any order)
AddrOrders(out) ==
    {f \in Orderings(DOMAIN out) :
        \A i, j \in 1..Len(f) : i < j => out[f[i]].header.addr <= out[f[j]].header.addr}

\* code_sections and data_sections: names, in sorted order
IsCode(out, name) == BitAnd(out[name].header.flags, SHF_EXECINSTR, 64) # 0
CodeSections(out, order) == SelectSeq(order, LAMBDA n : IsCode(out, n))
DataSections(out, order) == SelectSeq(order, LAMBDA n : ~IsCode(out, n))

\* FileDataSections without the NOBITS filter
AllDataSections(out, order) == SelectSeq(order, LAMBDA n : ~IsCode(out, n))

\* the data sections whose bytes go to the file
FileDataSections(out, order) ==
    SelectSeq(DataSections(out, order), LAMBDA n : out[n].header.sh_type # SHT_NOBITS)

RECURSIVE SumSizes(_, _)
SumSizes(out, names) ==
    IF names = <<>> THEN 0
    ELSE out[Head(names)].header.size + SumSizes(out, Tail(names))

CodeFilesz(out, order) == HeadersTotalSize + SumSizes(out, CodeSections(out, order))
DataFilesz(out, order) == SumSizes(out, FileDataSections(out, order))
DataMemsz(out, order) == SumSizes(out, DataSections(out, order))
DataFileOffset(out, order) == align_up(CodeFilesz(out, order), PageSize)

CodeHeader(out, order) ==
    [p_type |-> PT_LOAD,
     flags |-> BitOr(PF_R, PF_X, 32),
     offset |-> align_up(0, PageSize),
     vaddr |-> align_up(BaseAddr, PageSize),
     paddr |-> align_up(BaseAddr, PageSize),
     filesz |-> CodeFilesz(out, order),
     memsz |-> CodeFilesz(out, order),
     align |-> PageSize]

DataHeader(out, order) ==
    [p_type |-> PT_LOAD,
     flags |-> BitOr(PF_R, PF_W, 32),
     offset |-> DataFileOffset(out, order),
     vaddr |-> align_up(BaseAddr + CodeFilesz(out, order), PageSize),
     paddr |-> align_up(BaseAddr + CodeFilesz(out, order), PageSize),
     filesz |-> DataFilesz(out, order),
     memsz |-> DataMemsz(out, order),
     align |-> PageSize]

\* Step 4: the first input's header with the executable's fields set
ExecHeader(first, entry_point) ==
    [first EXCEPT !.e_type = ET_EXEC,
                  !.e_entry = entry_point,
                  !.e_phoff = ElfHeaderSize,
                  !.e_phnum = NumProgramHeaders,
                  !.e_phentsize = ProgramHeaderSize,
                  !.e_shoff = 0,
                  !.e_shnum = 0,
                  !.e_shstrndx = 0]

\* The buffer is kept as the list of the pieces appended to it, each with
\* its length in bytes; a run of padding is kept as its length.
RECURSIVE ImageLen(_)
ImageLen(image) == IF image = <<>> THEN 0 ELSE Head(image).len + ImageLen(Tail(image))

\* Padding that pads to the next multiple of 16 instead
PaddingTo16(to, len) == [kind |-> "pad", len |-> (16 - (len % 16)) % 16]

\* max(0, to - len): to.saturating_sub(len) zero bytes
Padding(to, len) == [kind |-> "pad", len |-> IF to > len THEN to - len ELSE 0]

SectionChunks(out, names) ==
    [i \in 1..Len(names) |->
        [kind |-> "section", name |-> names[i], len |-> Len(out[names[i]].data),
         bytes |-> out[names[i]].data]]

\* Step 5: the buffer write_all writes.  The ELF header is 16 bytes of e_ident
\* and then e_type .. e_shstrndx; a program header is 2 u32 and 6 u64.
Image(out, order, first, entry_point) ==
    LET headers ==
            <<[kind |-> "ehdr",
               len |-> 16 + 2 + 2 + 4 + 8 + 8 + 8 + 4 + 2 + 2 + 2 + 2 + 2 + 2,
               e_ident |-> <<127, 69, 76, 70, 2, 1, 1, 0, 0, 0, 0, 0, 0, 0, 0, 0>>,
               header |-> ExecHeader(first, entry_point)],
              [kind |-> "phdr", len |-> 4 + 4 + (6 * 8), ph |-> CodeHeader(out, order)],
              [kind |-> "phdr", len |-> 4 + 4 + (6 * 8), ph |-> DataHeader(out, order)]>>
        with_code_pad ==
            Append(headers, Padding(CodeHeader(out, order).offset, ImageLen(headers)))
        with_code == with_code_pad \o SectionChunks(out, CodeSections(out, order))
        with_data_pad ==
            Append(with_code, Padding(DataHeader(out, order).offset, ImageLen(with_code)))
    IN  with_data_pad \o SectionChunks(out, FileDataSections(out, order))

\* write_executable: File::create truncates the output path first; the
\* unwrap of the entry-point lookup panics when neither name is defined
WriteExecutable ==
    /\ pc = "write_executable"
    /\ IF ~HasEntryPoint(global_symbols)
       THEN /\ out_file' = [exists |-> TRUE, image |-> <<>>]
            /\ pc' = "panic"
            /\ err' = "NoEntryPoint"
       ELSE /\ \E order \in AddrOrders(output_sections) :
                  out_file' =
                      [exists |-> TRUE,
                       image |-> Image(output_sections, order, input_files[1].header,
                                       EntryPoint(global_symbols))]
            /\ pc' = "done"
            /\ err' = ""
    /\ UNCHANGED <<args, overflow_checks, input_files, output_sections, global_symbols,
                   current_addr, input_section_offsets, cursor, patched>>

Next ==
    \/ AddFile
    \/ LayoutSizes
    \/ LayoutAddrs
    \/ LayoutCopy
    \/ ResolveStep
    \/ ResolveEnd
    \/ ApplyStep
    \/ ApplyEnd
    \/ WriteExecutable

Spec == Init /\ [][Next]_vars

-----------------------------------------------------------------------------
(* Vocabulary of the properties *)

\* apply_relocations has returned
Relocated == pc \in {"write_executable", "done"} \/ (pc = "panic" /\ err = "NoEntryPoint")

\* resolve_symbols has returned
Resolved ==
    \/ pc = "apply_relocations"
    \/ Relocated
    \/ (pc = "panic" /\ err \in {"AddOverflow", "PatchOutOfRange"})

\* the relocation entries apply_relocations visits
Entries == RelocWork(input_files, 1, 1, output_sections)

\* the entry at position k of Entries, its symbol's name, the name of the
\* output section it patches and the input-section offset of its target
EntryRela(k) ==
    input_files[Entries[k][1] + 1].sections[Entries[k][2] + 1].relas[Entries[k][3] + 1]
EntrySymName(k) ==
    input_files[Entries[k][1] + 1].symbols[EntryRela(k).info.hi + 1].name
EntryTargetIdx(k) == input_files[Entries[k][1] + 1].sections[Entries[k][2] + 1].info
EntryOutName(k) == input_files[Entries[k][1] + 1].sections[EntryTargetIdx(k) + 1].name
EntryInputOffset(k) ==
    IF <<Entries[k][1], EntryTargetIdx(k)>> \in DOMAIN input_section_offsets
    THEN input_section_offsets[<<Entries[k][1], EntryTargetIdx(k)>>]
    ELSE 0

\* patch_pos, P, S and A of the entry at position k
EntryPos(k) == EntryInputOffset(k) + EntryRela(k).offset
EntryP(k) == output_sections[EntryOutName(k)].header.addr + EntryPos(k)
EntryS(k) == global_symbols[EntrySymName(k)]
EntryA(k) == EntryRela(k).addend

\* the entries of relocation type rtype whose symbol is in the global-symbol map
EntriesOfType(types) ==
    {k \in 1..Len(Entries) :
        EntryRela(k).info.lo \in types /\ EntrySymName(k) \in DOMAIN global_symbols}

\* the n bytes at patch_pos of entry k in the output buffer, and in the input
BytesAt(k, n) == SubSeq(output_sections[EntryOutName(k)].data, EntryPos(k) + 1, EntryPos(k) + n)
InputBytesAt(k, n) ==
    SubSeq(input_files[Entries[k][1] + 1].sections[EntryTargetIdx(k) + 1].bytes,
           EntryRela(k).offset + 1, EntryRela(k).offset + n)

\* the low 26 bits of a little-endian instruction word, as a number, the same
\* sign-extended from 26 bits, and the top 6 bits of the word
Low26(word) == word[1] + (256 * word[2]) + (65536 * word[3]) + (16777216 * (word[4] % 4))
SignExtend26(imm) == IF imm >= 33554432 THEN imm - 67108864 ELSE imm
Top6(word) == word[4] \div 4

-----------------------------------------------------------------------------
(* C1 *)

\* C1: the emitted e_entry is the final address of `_start` whenever `_start`
\* is in the global-symbol map (also when `main` is), the final address of
\* `main` when only `main` is; when neither is in the map write_executable
\* fails with NoEntryPoint and no executable image is written.
C1_EntryPoint ==
    /\ pc = "done" =>
          /\ out_file.image # <<>>
          /\ "_start" \in DOMAIN global_symbols =>
                out_file.image[1].header.e_entry = global_symbols["_start"]
          /\ "_start" \notin DOMAIN global_symbols =>
                /\ "main" \in DOMAIN global_symbols
                /\ out_file.image[1].header.e_entry = global_symbols["main"]
    /\ (Relocated /\ pc # "write_executable"
          /\ "_start" \notin DOMAIN global_symbols /\ "main" \notin DOMAIN global_symbols) =>
          /\ pc = "panic"
          /\ err = "NoEntryPoint"
          /\ out_file.image = <<>>

\* an executable was written for inputs that define both names, at different
\* addresses
C1_Witness ==
    /\ pc = "done"
    /\ "_start" \in DOMAIN global_symbols
    /\ "main" \in DOMAIN global_symbols
    /\ global_symbols["_start"] # global_symbols["main"]
    /\ out_file.image[1].header.e_entry = global_symbols["_start"]

-----------------------------------------------------------------------------
(* C2 *)

\* C2: after apply_relocations, for every CALL26 entry that was patched at
\* byte p of output section o: the low 26 bits of the word at o.data[p..p+4],
\* sign-extended, shifted left by 2 and added to o.addr + p give S + A modulo
\* 2^64, and the top 6 bits of the word are those it had before.
C2_Call26RoundTrip ==
    Relocated =>
        \A i \in 1..Len(patched) :
            patched[i].rtype = R_AARCH64_CALL26 =>
                LET o == output_sections[patched[i].out_name]
                    word == SubSeq(o.data, patched[i].pos + 1, patched[i].pos + 4)
                IN  /\ LeBytes((SignExtend26(Low26(word)) * 4) + o.header.addr + patched[i].pos, 8)
                         = LeBytes(patched[i].s + patched[i].a, 8)
                    /\ Top6(word) = Top6(patched[i].old)

-----------------------------------------------------------------------------
(* C3 *)

\* C3: a JUMP26 entry whose symbol is in the global-symbol map is applied like
\* CALL26: after apply_relocations the word at patch_pos keeps its top 6 bits
\* and its low 26 bits are ((S + A - P) >> 2) & 0x03FFFFFF.
C3_Jump26Applied ==
    Relocated =>
        \A k \in EntriesOfType({R_AARCH64_JUMP26}) :
            /\ Top6(BytesAt(k, 4)) = Top6(InputBytesAt(k, 4))
            /\ Low26(BytesAt(k, 4)) = ((EntryS(k) + EntryA(k) - EntryP(k)) \div 4) % 67108864

-----------------------------------------------------------------------------
(* C4 *)

\* C4: an ABS64, ABS32 or ABS16 entry whose symbol is in the global-symbol map
\* is applied: after apply_relocations the 8, 4 or 2 bytes at patch_pos hold
\* the low 64, 32 or 16 bits of S + A, little-endian.
C4_AbsApplied ==
    Relocated =>
        \A k \in EntriesOfType({R_AARCH64_ABS64, R_AARCH64_ABS32, R_AARCH64_ABS16}) :
            LET n == PatchWidth(EntryRela(k).info.lo)
            IN  BytesAt(k, n) = LeBytes(EntryS(k) + EntryA(k), n)

-----------------------------------------------------------------------------
(* C5 *)

\* C5: for every PREL32 entry whose symbol is in the global-symbol map, after
\* apply_relocations the four bytes at patch_pos = input_section_offset +
\* rela.offset of the target output section are (S + A - P) mod 2^32,
\* little-endian, with P = output_section.addr + input_section_offset +
\* rela.offset and A the signed addend.
C5_Prel32 ==
    Relocated =>
        \A k \in EntriesOfType({R_AARCH64_PREL32}) :
            BytesAt(k, 4) = LeBytes(EntryS(k) + EntryA(k) - EntryP(k), 4)

\* a PREL32 entry with a negative addend was applied in an input section that
\* does not start its output section, and another against a symbol at .data+0
\* with addend 0
C5_Witness ==
    /\ pc = "done"
    /\ \E k \in EntriesOfType({R_AARCH64_PREL32}) :
          /\ EntryA(k) < 0
          /\ EntryInputOffset(k) > 0
          /\ BytesAt(k, 4) # InputBytesAt(k, 4)
          /\ \E i \in 1..Len(patched) : patched[i].item = Entries[k]

-----------------------------------------------------------------------------
(* C6, C7 *)

\* the symbols of the inputs in the order resolve_symbols visits them, and the
\* file, the symbol and the section of the one at position k
Defs == SymbolWork(input_files, 1)
DefFile(k) == input_files[Defs[k][1] + 1]
DefSym(k) == DefFile(k).symbols[Defs[k][2] + 1]
DefSection(k) == DefFile(k).sections[DefSym(k).shndx + 1]

\* the symbol at position k is a named GLOBAL symbol defined in a section of
\* its file whose name is the name of an output section
Defines(k) ==
    /\ DefSym(k).info \div 16 = 1
    /\ DefSym(k).name # ""
    /\ DefSym(k).shndx > 0
    /\ DefSym(k).shndx < Len(DefFile(k).sections)
    /\ DefSection(k).name \in DOMAIN output_sections

\* output[s.name].addr + input_section_offset(f, s_idx) + g.value
DefAddr(k) ==
    output_sections[DefSection(k).name].header.addr
    + (IF <<Defs[k][1], DefSym(k).shndx>> \in DOMAIN input_section_offsets
       THEN input_section_offsets[<<Defs[k][1], DefSym(k).shndx>>] ELSE 0)
    + DefSym(k).value

\* no symbol before position k defines the name of the symbol at position k
FirstOfName(k) ==
    \A j \in 1..(k - 1) : ~(Defines(j) /\ DefSym(j).name = DefSym(k).name)

\* C6 as stated: after resolve_symbols, for every global symbol g defined in
\* section s of input file f, the address recorded for g's name equals
\* output[s.name].addr + input_section_offset(f, s_idx) + g.value.
C6_EveryDefinition ==
    Resolved =>
        \A k \in 1..Len(Defs) :
            (Defines(k) /\ DefSym(k).name \in DOMAIN global_symbols) =>
                global_symbols[DefSym(k).name] = DefAddr(k)

\* C6 as amended: after resolve_symbols, for every global symbol g defined in
\* section s of input file f that is the first such definition of its name (in
\* input-file order, then symbol-table order), g's name is in the
\* global-symbol map and the address recorded for it equals
\* output[s.name].addr + input_section_offset(f, s_idx) + g.value.
C6_FirstDefinition ==
    Resolved =>
        \A k \in 1..Len(Defs) :
            (Defines(k) /\ FirstOfName(k)) =>
                /\ DefSym(k).name \in DOMAIN global_symbols
                /\ global_symbols[DefSym(k).name] = DefAddr(k)

\* a symbol of the second input file, in an input section that starts at a
\* non-zero offset of its output section, has been resolved
C6_Witness ==
    /\ Resolved
    /\ \E k \in 1..Len(Defs) :
          /\ Defines(k) /\ FirstOfName(k)
          /\ Defs[k][1] = 1
          /\ <<1, DefSym(k).shndx>> \in DOMAIN input_section_offsets
          /\ input_section_offsets[<<1, DefSym(k).shndx>>] > 0
          /\ DefSym(k).value > 0
          /\ global_symbols[DefSym(k).name] = DefAddr(k)

\* C7: the global-symbol map is first-writer-wins: a step never changes or
\* removes an entry, every entry is the address computed from the first
\* definition of its name in input-file order then symbol-table order, and
\* LOCAL and WEAK symbols and symbols with shndx = 0 insert nothing.
C7_FirstWriterWins ==
    /\ [][\A n \in DOMAIN global_symbols :
             n \in DOMAIN global_symbols' /\ global_symbols'[n] = global_symbols[n]]_vars
    /\ [](\A n \in DOMAIN global_symbols :
             \E k \in 1..Len(Defs) :
                 /\ DefSym(k).name = n
                 /\ DefSym(k).info \div 16 = 1
                 /\ DefSym(k).shndx # 0
                 /\ Defines(k) /\ FirstOfName(k)
                 /\ global_symbols[n] = DefAddr(k))

\* resolve_symbols has passed over a second definition of a recorded name
\* whose address would have been another one
C7_Witness ==
    /\ Resolved
    /\ \E j, k \in 1..Len(Defs) :
          /\ j < k
          /\ Defines(j) /\ FirstOfName(j) /\ Defines(k)
          /\ DefSym(j).name = DefSym(k).name
          /\ DefAddr(j) # DefAddr(k)
          /\ global_symbols[DefSym(k).name] = DefAddr(j)

-----------------------------------------------------------------------------
(* C8, C9, C10 *)

\* the output sections with SHF_EXECINSTR, the others, and the others that
\* are not NOBITS
ExecNames == {n \in DOMAIN output_sections : (output_sections[n].header.flags \div 4) % 2 = 1}
OtherNames == DOMAIN output_sections \ ExecNames
OtherFileNames == {n \in OtherNames : output_sections[n].header.sh_type # 8}

RECURSIVE SizeSum(_)
SizeSum(names) ==
    IF names = {} THEN 0
    ELSE LET n == CHOOSE x \in names : TRUE
         IN  output_sections[n].header.size + SizeSum(names \ {n})

\* C8: the code program header has filesz = memsz = 176 + the sizes of the
\* SHF_EXECINSTR output sections; the data program header has memsz = the
\* sizes of all other output sections and filesz = that without the NOBITS
\* ones, so memsz - filesz is the size of the NOBITS sections of the segment.
C8_SegmentSizes ==
    pc = "done" =>
        LET code == out_file.image[2].ph
            data == out_file.image[3].ph
        IN  /\ code.p_type = 1 /\ data.p_type = 1
            /\ code.filesz = 176 + SizeSum(ExecNames)
            /\ code.memsz = code.filesz
            /\ data.memsz = SizeSum(OtherNames)
            /\ data.filesz = SizeSum(OtherFileNames)
            /\ data.memsz - data.filesz = SizeSum(OtherNames \ OtherFileNames)

\* an executable with code, data and (from two inputs) 8 bytes of NOBITS
C8_Witness ==
    /\ pc = "done"
    /\ out_file.image[2].ph.filesz > 176
    /\ out_file.image[3].ph.filesz > 0
    /\ out_file.image[3].ph.memsz - out_file.image[3].ph.filesz = 8

\* the file offset of piece i of the image
OffsetOf(i) == ImageLen(SubSeq(out_file.image, 1, i - 1))

\* pieces from..to of the image are the data buffers of the sections named
\* in names, each once, in ascending addr order
SectionRun(from, to, names) ==
    /\ \A i \in from..to :
          /\ out_file.image[i].kind = "section"
          /\ out_file.image[i].name \in names
          /\ out_file.image[i].bytes = output_sections[out_file.image[i].name].data
          /\ out_file.image[i].len = Len(out_file.image[i].bytes)
    /\ \A i, j \in from..to :
          i < j =>
              /\ out_file.image[i].name # out_file.image[j].name
              /\ output_sections[out_file.image[i].name].header.addr
                    <= output_sections[out_file.image[j].name].header.addr

C10_NoPartialOutput ==
    pc = "panic" => out_file \in {NoFile, OldFile}

-----------------------------------------------------------------------------
(* C11, C12, C13 *)

\* add_file has returned for every input path, and layout's size accumulation
\* has run to its end or to its panic
Added == pc # "add_file" /\ ~(pc = "panic" /\ err \in {"BadMagic", "SectionTableTruncated",
                                                      "IndexOutOfBounds", "NoSymtab"})
Accumulated == Added /\ pc # "layout_sizes"

\* C11: an input with the ELF magic whose class is not 64-bit, whose data
\* encoding is not little-endian or whose machine is not AArch64 (183) is
\* rejected when it is added; no such file becomes an InputFile.
C11_UnsupportedRejected ==
    \A i \in 1..Len(input_files) :
        /\ input_files[i].content.ident[5] = 2
        /\ input_files[i].content.ident[6] = 1
        /\ input_files[i].content.e_machine = <<183, 0>>

\* the input sections of type PROGBITS or NOBITS whose name starts with ".rel"
RelNamed ==
    {fs \in UNION {{<<f, x>> : x \in 1..Len(input_files[f].sections)} :
                       f \in 1..Len(input_files)} :
        /\ input_files[fs[1]].sections[fs[2]].sh_type \in {1, 8}
        /\ input_files[fs[1]].sections[fs[2]].name \in {".rel.text", ".rela.data"}}

\* C12: if an input file has a PROGBITS or NOBITS section whose name starts
\* with ".rel", layout aborts the link (ConsistencyViolation) whatever the
\* section's flags, before any output section has an address and before any
\* output is written; otherwise layout never aborts for this reason.
C12_RelSectionAborts ==
    Accumulated =>
        /\ (RelNamed # {}) <=> (pc = "panic" /\ err = "ConsistencyViolation")
        /\ (RelNamed # {}) =>
              /\ \A n \in DOMAIN output_sections : output_sections[n].header.addr = 0
              /\ current_addr = 4194304
              /\ input_section_offsets = EmptyMap
              /\ out_file \in {NoFile, OldFile}

\* layout has aborted at a ".rel" section with SHF_ALLOC of the second file,
\* after it created output sections for the sections before it
C12_Witness ==
    /\ pc = "panic" /\ err = "ConsistencyViolation"
    /\ DOMAIN output_sections # {}
    /\ \E fs \in RelNamed :
          /\ fs[1] = 2
          /\ (input_files[fs[1]].sections[fs[2]].flags \div 2) % 2 = 1

\* C13: for every input for which parse_elf_header and
\* parse_section_header_table both succeed, the number of section headers
\* returned is the header's e_shnum; when the bytes from e_shoff on are too
\* short for e_shnum headers of 64 bytes the parse fails.
C13_SectionCount ==
    /\ [](\A i \in 1..Len(input_files) :
          /\ Len(input_files[i].sections) = input_files[i].header.e_shnum
          /\ 64 * input_files[i].header.e_shnum
                <= (64 * Len(input_files[i].content.shtab)) + input_files[i].content.tail)
    /\ [][(/\ pc = "add_file" /\ args # <<>>
            /\ SubSeq(Head(args).ident, 1, 4) = <<127, 69, 76, 70>>
            /\ 64 * Head(args).fields.e_shnum
                  > (64 * Len(Head(args).shtab)) + Head(args).tail)
           => (pc' = "panic" /\ err' = "SectionTableTruncated"
                  /\ input_files' = input_files)]_vars

\* a file with a section header after the e_shnum headers of its table has
\* been added
C13_Witness ==
    \E i \in 1..Len(input_files) :
        /\ Len(input_files[i].content.shtab) > input_files[i].header.e_shnum
        /\ Len(input_files[i].sections) = input_files[i].header.e_shnum

-----------------------------------------------------------------------------
(* C14, C15 *)

\* the data-copy phase of layout has run to its end, and the address
\* assignment phase has
Copied ==
    \/ pc \in {"resolve_symbols", "apply_relocations", "write_executable", "done"}
    \/ (pc = "panic" /\ err \in {"AddOverflow", "PatchOutOfRange", "NoEntryPoint"})
LaidOut == Copied \/ pc = "layout_copy" \/ (pc = "panic" /\ err = "CopyOutOfRange")

\* addr, size and addralign of the output section named n
AddrOf(n) == output_sections[n].header.addr
SizeOf(n) == output_sections[n].header.size
AlignOf(n) == output_sections[n].header.addralign

\* C14: for every output section that has bytes in the file, the virtual
\* address at which the program headers load its first byte, p_vaddr + (file
\* offset of the byte - p_offset) of the PT_LOAD segment that contains it, is
\* the section's header.addr; every NOBITS section's [addr, addr + size) lies
\* inside [p_vaddr + filesz, p_vaddr + memsz) of the data segment.
C14_LoadAddresses ==
    pc = "done" =>
        LET image == out_file.image
            data == image[3].ph
        IN  /\ \A i \in 1..Len(image) :
                  (image[i].kind = "section" /\ image[i].len > 0) =>
                      \E h \in {2, 3} :
                          /\ image[h].ph.offset <= OffsetOf(i)
                          /\ OffsetOf(i) < image[h].ph.offset + image[h].ph.filesz
                          /\ image[h].ph.vaddr + (OffsetOf(i) - image[h].ph.offset)
                                = AddrOf(image[i].name)
            /\ \A n \in DOMAIN output_sections :
                  output_sections[n].header.sh_type = 8 =>
                      /\ data.vaddr + data.filesz <= AddrOf(n)
                      /\ AddrOf(n) + SizeOf(n) <= data.vaddr + data.memsz

\* the priority of a name in the sorted order
Priority(n) ==
    IF n = ".text" THEN 0 ELSE IF n = ".rodata" THEN 1 ELSE IF n = ".data" THEN 2
    ELSE IF n = ".bss" THEN 3 ELSE 4

\* the orders of the output sections that follow the sorted order
\* .text < .rodata < .data < .bss < other
SortedOrders ==
    {order \in Orderings(DOMAIN output_sections) :
        \A i, j \in 1..Len(order) : i < j => Priority(order[i]) <= Priority(order[j])}

\* where the cursor is when the section at position i of the order is placed
CursorAt(order, i) ==
    IF i = 1 THEN 4194304 + 176 ELSE AddrOf(order[i - 1]) + SizeOf(order[i - 1])

PowerOfTwo(n) == n \in {1, 2, 4, 8, 16, 32, 64, 128, 256, 512, 1024, 2048, 4096}

\* C15 as stated: after layout, addresses are strictly increasing in the
\* sorted order .text < .rodata < .data < .bss < other, each addr is a
\* multiple of a non-zero addralign, a section with addralign 0 or 1 is placed
\* at the cursor with no padding, and the first address is at least
\* 0x400000 + 176.
C15_StrictlyIncreasing ==
    LaidOut =>
        \E order \in SortedOrders :
            \A i \in 1..Len(order) :
                /\ i > 1 => AddrOf(order[i - 1]) < AddrOf(order[i])
                /\ AlignOf(order[i]) # 0 => AddrOf(order[i]) % AlignOf(order[i]) = 0
                /\ AlignOf(order[i]) \in {0, 1} => AddrOf(order[i]) = CursorAt(order, i)
                /\ AddrOf(order[i]) >= 4194304 + 176

\* C15 as amended: after layout, in the sorted order every section starts at
\* or after the end of the section before it (addresses never decrease, and
\* increase strictly after a section of non-zero size), each addr is a
\* multiple of an addralign that is a power of two, a section with addralign
\* 0 or 1 is placed at the cursor with no padding, and the first address is at
\* least 0x400000 + 176.
C15_Increasing ==
    LaidOut =>
        \E order \in SortedOrders :
            \A i \in 1..Len(order) :
                /\ AddrOf(order[i]) >= CursorAt(order, i)
                /\ PowerOfTwo(AlignOf(order[i])) => AddrOf(order[i]) % AlignOf(order[i]) = 0
                /\ AlignOf(order[i]) \in {0, 1} => AddrOf(order[i]) = CursorAt(order, i)
                /\ AddrOf(order[i]) >= 4194304 + 176

\* layout has placed a section of addralign 0 or 1 at an address that is not
\* a multiple of 8, has padded before another section, and has given an
\* empty section the address of the section after it
C15_Witness ==
    /\ LaidOut
    /\ \E n \in DOMAIN output_sections : AlignOf(n) \in {0, 1} /\ AddrOf(n) % 8 # 0
    /\ \E order \in SortedOrders :
          /\ \A i \in 1..Len(order) : AddrOf(order[i]) >= CursorAt(order, i)
          /\ \E i \in 2..Len(order) : AddrOf(order[i]) > CursorAt(order, i)
          /\ \E i \in 2..Len(order) :
                SizeOf(order[i - 1]) = 0 /\ AddrOf(order[i]) = AddrOf(order[i - 1])

-----------------------------------------------------------------------------
(* C16, C17 *)

\* the input section at (file index, section index)
InputSection(key) == input_files[key[1] + 1].sections[key[2] + 1]

\* C16: after the data-copy phase, for every (file index, section index) in
\* the input-section offset table, recorded offset + the input section's size
\* is at most the size, and the data-buffer length, of the output section of
\* the same name.
C16_OffsetsInRange ==
    Copied =>
        \A key \in DOMAIN input_section_offsets :
            /\ InputSection(key).name \in DOMAIN output_sections
            /\ input_section_offsets[key] + InputSection(key).size
                  <= SizeOf(InputSection(key).name)
            /\ input_section_offsets[key] + InputSection(key).size
                  <= Len(output_sections[InputSection(key).name].data)

\* the data-copy phase has recorded a non-zero offset for a PROGBITS section
\* without SHF_ALLOC whose name is the name of a NOBITS output section
C16_Witness ==
    /\ Copied
    /\ \E key \in DOMAIN input_section_offsets :
          /\ (InputSection(key).flags \div 2) % 2 = 0
          /\ InputSection(key).size > 0
          /\ input_section_offsets[key] > 0
          /\ output_sections[InputSection(key).name].header.sh_type = 8

\* the (file index, section index) pairs of the input sections of non-zero
\* size that contributed their size to an output section
Contributors ==
    {key \in UNION {{<<f - 1, x - 1>> : x \in 1..Len(input_files[f].sections)} :
                        f \in 1..Len(input_files)} :
        /\ InputSection(key).sh_type \in {1, 8}
        /\ InputSection(key).name # ""
        /\ (InputSection(key).flags \div 2) % 2 = 1
        /\ InputSection(key).size > 0}

\* the input-section offset resolve_symbols and apply_relocations use
OffsetUsed(key) ==
    IF key \in DOMAIN input_section_offsets THEN input_section_offsets[key] ELSE 0

\* C17: any two distinct input sections of non-zero size that contributed
\* their size to the same output section occupy disjoint byte ranges
\* [off, off + size) of it, off being the input-section offset that
\* resolve_symbols and apply_relocations use for the pair.
C17_DisjointRanges ==
    Copied =>
        \A k1, k2 \in Contributors :
            (k1 # k2 /\ InputSection(k1).name = InputSection(k2).name) =>
                \/ OffsetUsed(k1) + InputSection(k1).size <= OffsetUsed(k2)
                \/ OffsetUsed(k2) + InputSection(k2).size <= OffsetUsed(k1)

-----------------------------------------------------------------------------
(* C18, C19, C20 *)

\* the size-accumulation phase of layout has run to its end
SizesDone == Accumulated /\ ~(pc = "panic" /\ err = "ConsistencyViolation")

\* the (file index, section index) pairs of the input sections with a
\* non-empty name, type PROGBITS or NOBITS and the SHF_ALLOC flag, and those
\* of them with the name n
Allocated ==
    {key \in UNION {{<<f - 1, x - 1>> : x \in 1..Len(input_files[f].sections)} :
                        f \in 1..Len(input_files)} :
        /\ InputSection(key).sh_type \in {1, 8}
        /\ InputSection(key).name # ""
        /\ (InputSection(key).flags \div 2) % 2 = 1}
AllocatedAs(n) == {key \in Allocated : InputSection(key).name = n}

\* the first pair of a set in input-file order, then section order
FirstOf(keys) ==
    CHOOSE k \in keys : \A j \in keys : k[1] < j[1] \/ (k[1] = j[1] /\ k[2] <= j[2])

RECURSIVE InputSizeSum(_)
InputSizeSum(keys) ==
    IF keys = {} THEN 0
    ELSE LET k == CHOOSE x \in keys : TRUE
         IN  InputSection(k).size + InputSizeSum(keys \ {k})

\* C18: after the size-accumulation phase an output section exists for a
\* name exactly when some input section has that non-empty name, type
\* PROGBITS or NOBITS and the SHF_ALLOC flag; its size is the sum of the sizes
\* of all such input sections over all input files, and its type, flags and
\* addralign are those of the first of them in input-file order.
C18_OutputSections ==
    SizesDone =>
        /\ DOMAIN output_sections = {InputSection(key).name : key \in Allocated}
        /\ \A n \in DOMAIN output_sections :
              /\ SizeOf(n) = InputSizeSum(AllocatedAs(n))
              /\ output_sections[n].header.sh_type = InputSection(FirstOf(AllocatedAs(n))).sh_type
              /\ output_sections[n].header.flags = InputSection(FirstOf(AllocatedAs(n))).flags
              /\ AlignOf(n) = InputSection(FirstOf(AllocatedAs(n))).addralign

\* the phase has merged a PROGBITS and a NOBITS section under one name, with
\* the type of the first and the size of both, in a link of two files, and has
\* passed over a named PROGBITS section without SHF_ALLOC
C18_Witness ==
    /\ SizesDone
    /\ \E n \in DOMAIN output_sections :
          /\ \E j, k \in AllocatedAs(n) :
                InputSection(j).sh_type # InputSection(k).sh_type
          /\ SizeOf(n) = 8
          /\ output_sections[n].header.sh_type = 1
    /\ Len(input_files) = 2
    /\ \E f \in 1..Len(input_files) :
          \E x \in 1..Len(input_files[f].sections) :
              /\ input_files[f].sections[x].sh_type = 1
              /\ input_files[f].sections[x].name \notin DOMAIN output_sections \cup {""}

\* C19: layout is deterministic: whatever the iteration order of the
\* output-section map, layout assigns the same addr to every output section
\* of the same ordered list of input files, also when two or more output
\* sections have names of priority 4.
C19_Deterministic ==
    pc = "layout_addrs" =>
        \A o1, o2 \in LayoutOrders(output_sections) :
            \A n \in DOMAIN output_sections :
                AssignAddresses(o1, 1, output_sections, current_addr + HeadersTotalSize)
                    .out[n].header.addr
                = AssignAddresses(o2, 1, output_sections, current_addr + HeadersTotalSize)
                    .out[n].header.addr

\* C20: a relocation entry whose symbol name is not in the global-symbol map
\* is skipped: the step leaves every output-section buffer, address and size,
\* the global-symbol map and the offset table as they were, does not abort,
\* and the loop goes on with the entry after it.
C20_MissingSkipped ==
    [][(/\ pc = "apply_relocations"
        /\ cursor <= Len(Entries)
        /\ EntrySymName(cursor) \notin DOMAIN global_symbols)
       => (/\ output_sections' = output_sections
           /\ global_symbols' = global_symbols
           /\ input_section_offsets' = input_section_offsets
           /\ current_addr' = current_addr
           /\ pc' = "apply_relocations"
           /\ err' = ""
           /\ cursor' = cursor + 1)]_vars

\* apply_relocations has skipped an entry against an undefined symbol and
\* then applied the next entry of the same relocation section and an entry
\* of a later relocation section
C20_Witness ==
    /\ Relocated
    /\ \E k \in 1..Len(Entries) :
          /\ EntrySymName(k) \notin DOMAIN global_symbols
          /\ BytesAt(k, 4) = InputBytesAt(k, 4)
          /\ \E k2, k3 \in (k + 1)..Len(Entries) :
                /\ Entries[k2][1] = Entries[k][1] /\ Entries[k2][2] = Entries[k][2]
                /\ Entries[k3][2] # Entries[k][2]
                /\ \E i, j \in 1..Len(patched) :
                      patched[i].item = Entries[k2] /\ patched[j].item = Entries[k3]

=============================================================================
